---- MODULE Spec2Model ----
(***************************************************************************)
(* svelte-navigator, src/hooks.js: the context accessors (useLocation,     *)
(* useActiveRoute, useRouterBase, useBase), the context-aware link         *)
(* resolver (useLinkResolve) and the context-aware navigate function       *)
(* (useNavigate).                                                          *)
(*                                                                         *)
(* Strings are sequences of one-character strings, so that prefixing,      *)
(* splitting at slashes and normalisation are computed, not assumed.       *)
(* The collaborators imported by hooks.js (getContext, get, resolveLink,   *)
(* navigate) are modelled at their interface.                              *)
(***************************************************************************)
EXTENDS Naturals, Sequences, FiniteSets

VARIABLES
    provided,    \* the context keys an ancestor has published for the calling component
    stores,      \* current value of each reactive store (location, activeRoute, routerBase, base)
    hookResult,  \* completion of the latest accessor / hook-factory call
    resolveFn,   \* the closure returned by useLinkResolve (captures store references)
    navigateFn,  \* the closure returned by useNavigate (captures a resolve closure)
    created,     \* history variable: the store values when the latest closure was created
    lastCall,    \* completion of the latest resolve / navigateRelative call
    pc,          \* position inside a navigateRelative call: "idle" or "resolved"
    cur,         \* the arguments evaluated for the pending call of the navigate primitive
    navLog,      \* the invocations of the navigate primitive made by the latest navigateRelative call
    pending      \* the history transition started by the primitive and not yet applied

vars == <<provided, stores, hookResult, resolveFn, navigateFn, created,
          lastCall, pc, cur, navLog, pending>>

----------------------------------------------------------------------------
(* Bounds *)

\* longest caller-supplied path enumerated for the resolver
MaxLen == 3

Chars == {"/", ".", "a"}

SeqsUpTo(S, n) == UNION {[1..k -> S] : k \in 0..n}

\* the worked examples of the specification and of the hook documentation
ExamplePaths ==
    { <<"/", ".", ".", "/", "a">>,
      <<"/", "a", "/", "/", "b", "/", ".", ".", "/", "c">>,
      <<"a", "/", ".", ".">>,
      <<".", ".", "/", ".", ".", "/", ".", ".">>,
      <<"/", "a", "/", "b">> }

Paths == SeqsUpTo(Chars, MaxLen) \cup ExamplePaths

\* the targets handed to navigateRelative: relative, absolute, and climbing
NavPaths == { <<"a">>, <<"/", "a">>, <<".", ".">> }

----------------------------------------------------------------------------
(* Strings *)

RECURSIVE split(_, _, _)
split(s, seg, acc) ==
    IF s = <<>> THEN Append(acc, seg)
    ELSE IF Head(s) = "/" THEN split(Tail(s), <<>>, Append(acc, seg))
    ELSE split(Tail(s), Append(seg, Head(s)), acc)

\* the non-empty segments of s: repeated slashes collapse
segments(s) == SelectSeq(split(s, <<>>, <<>>), LAMBDA x : x # <<>>)

DotDot == <<".", ".">>

\* each ".." removes the preceding segment; at the root it is a no-op
RECURSIVE resolveDots(_, _)
resolveDots(segs, stack) ==
    IF segs = <<>> THEN stack
    ELSE IF Head(segs) = DotDot
         THEN resolveDots(Tail(segs),
                          IF stack = <<>> THEN stack
                          ELSE SubSeq(stack, 1, Len(stack) - 1))
         ELSE resolveDots(Tail(segs), Append(stack, Head(segs)))

RECURSIVE joinSegments(_)
joinSegments(segs) ==
    IF segs = <<>> THEN <<>>
    ELSE <<"/">> \o Head(segs) \o joinSegments(Tail(segs))

normalize(s) ==
    LET stack    == resolveDots(segments(s), <<>>)
        trailing == s # <<>> /\ s[Len(s)] = "/"
    IN  IF stack = <<>> THEN <<"/">>
        ELSE joinSegments(stack) \o (IF trailing THEN <<"/">> ELSE <<>>)

\* resolveLink(path, basepath, currentUri), imported from ./utils
resolveLink(path, basepath, currentUri) ==
    IF path = <<>> \/ path = <<".">> THEN normalize(currentUri)
    ELSE IF Head(path) = "/" THEN normalize(basepath \o path)
    ELSE normalize(currentUri \o <<"/">> \o path)

startsWithSlash(s) == s # <<>> /\ Head(s) = "/"

hasRepeatedSlash(s) == \E i \in 1..(Len(s) - 1) : s[i] = "/" /\ s[i + 1] = "/"

hasDotDotSegment(s) ==
    LET parts == split(s, <<>>, <<>>)
    IN  \E i \in 1..Len(parts) : parts[i] = DotDot

----------------------------------------------------------------------------
(* Values *)

Keys == {"LOCATION", "ROUTER"}

\* Base values { path, uri }: path is the mount pattern, uri its resolved absolute form
BaseValues ==
    { [path |-> <<"/">>, uri |-> <<"/">>],
      [path |-> <<"a">>, uri |-> <<"/", "a">>] }

RouterBaseValues ==
    { [path |-> <<"/">>, uri |-> <<"/">>],
      [path |-> <<"a">>, uri |-> <<"/", "a">>],
      [path |-> <<"b">>, uri |-> <<"/", "a", "/", "b">>] }

\* the active route follows the match that produced the router base
ActiveRouteFor(rb) == [matched |-> rb.uri # <<"/">>, uri |-> rb.uri]

InitialStores ==
    [ location    |-> [pathname |-> <<"/">>],
      activeRoute |-> ActiveRouteFor([path |-> <<"/">>, uri |-> <<"/">>]),
      routerBase  |-> [path |-> <<"/">>, uri |-> <<"/">>],
      base        |-> [path |-> <<"/">>, uri |-> <<"/">>] ]

\* what a provider publishes under each key: references to its stores
ContextValue(key) ==
    IF key = "LOCATION"
    THEN [tag |-> "value", subscribe |-> "location", activeRoute |-> "none",
          routerBase |-> "none", base |-> "none"]
    ELSE [tag |-> "value", subscribe |-> "none", activeRoute |-> "activeRoute",
          routerBase |-> "routerBase", base |-> "base"]

Absent(tag) ==
    [tag |-> tag, subscribe |-> "none", activeRoute |-> "none",
     routerBase |-> "none", base |-> "none"]

\* getContext(key), imported from svelte: the published value; with no provider
\* the lookup either yields undefined or fails, depending on the host
getContext(key) ==
    IF key \in provided THEN {ContextValue(key)}
    ELSE {Absent("undefined"), Absent("fails")}

\* get(store), imported from svelte/store: a synchronous read of the current value
get(store, st) == st[store]

NoFn == [made |-> FALSE, base |-> "none", routerBase |-> "none"]

Returned(ref, fn) == [outcome |-> "returned", ref |-> ref, error |-> "none", fn |-> fn]

Threw(error) == [outcome |-> "threw", ref |-> "none", error |-> error, fn |-> NoFn]

\* destructuring `const { f } = v`: a failed lookup propagates, undefined cannot be destructured
contextError(g) ==
    IF g.tag = "fails" THEN "NoProvider"
    ELSE IF g.tag = "undefined" THEN "TypeError"
    ELSE "none"

----------------------------------------------------------------------------
(* The hooks *)

useLocation(g) ==
    IF contextError(g) # "none" THEN Threw(contextError(g))
    ELSE Returned(g.subscribe, NoFn)

useActiveRoute(g) ==
    IF contextError(g) # "none" THEN Threw(contextError(g))
    ELSE IF g.activeRoute = "none" THEN Threw("TypeError")
    ELSE Returned(g.activeRoute, NoFn)

useRouterBase(g) ==
    IF contextError(g) # "none" THEN Threw(contextError(g))
    ELSE Returned(g.routerBase, NoFn)

\* a lookup that tolerates a missing provider and hands back undefined
useBaseOptional(g) ==
    IF contextError(g) # "none" THEN Returned("none", NoFn)
    ELSE Returned(g.base, NoFn)

useBase(g) ==
    IF contextError(g) # "none" THEN Threw(contextError(g))
    ELSE Returned(g.base, NoFn)

useLinkResolve(g1, g2) ==
    LET base == useBase(g1)
    IN  IF base.outcome = "threw" THEN base
        ELSE LET routerBase == useRouterBase(g2)
             IN  IF routerBase.outcome = "threw" THEN routerBase
                 ELSE Returned("fn", [made |-> TRUE, base |-> base.ref,
                                      routerBase |-> routerBase.ref])

useNavigate(g1, g2) == useLinkResolve(g1, g2)

\* the closure reads the values its stores held when it was created
resolveStale(path, fn, st) ==
    resolveLink(path, get(fn.base, created).uri, get(fn.routerBase, created).uri)

\* the closure passes the two uris in the opposite order
resolveSwapped(path, fn, st) ==
    resolveLink(path, get(fn.routerBase, st).uri, get(fn.base, st).uri)

\* the closure glues the path to the base uri without resolving it
resolveConcat(path, fn, st) == get(fn.base, st).uri \o path

\* the closure anchors every path, absolute or not, at the router base
resolveAnchored(path, fn, st) ==
    resolveLink(path, get(fn.routerBase, st).uri, get(fn.routerBase, st).uri)

\* the closure returned by useLinkResolve, applied to path with the stores as st
resolve(path, fn, st) ==
    LET basepath == get(fn.base, st).uri
        uri      == get(fn.routerBase, st).uri
    IN  resolveLink(path, basepath, uri)

\* options of a navigateRelative call; an absent property reads as undefined
Omitted == [given |-> FALSE, state |-> "undefined", replace |-> "undefined"]

Options ==
    {Omitted} \cup
    [given : {TRUE}, state : {"undefined", "s1"}, replace : {"undefined", "true", "false"}]

\* the arguments are handed on without the default for replace
navigateRelativeArgsNoDefault(to, options, fn, st) ==
    [uri |-> resolve(to, fn, st), state |-> options.state, replace |-> options.replace]

\* the arguments of the one call navigate(resolve(to), { state, replace })
navigateRelativeArgs(to, options, fn, st) ==
    LET opts    == IF options.given THEN options ELSE [state |-> "undefined", replace |-> "undefined"]
        state   == opts.state
        replace == IF opts.replace = "undefined" THEN "false" ELSE opts.replace
    IN  [uri |-> resolve(to, fn, st), state |-> state, replace |-> replace]

\* navigate(uri, { state, replace }), imported from ./history: starts a transition or fails
navigate(args) ==
    { [outcome |-> "returned", error |-> "none"],
      [outcome |-> "threw", error |-> "SecurityError"],
      [outcome |-> "threw", error |-> "HistoryError"] }

\* a failure of the primitive is caught and the call returns normally
navigateRelativeCaught(r) == [outcome |-> "returned", error |-> "none"]

\* navigateRelative is the bare call expression: it completes as navigate completes
navigateRelativeCompletion(r) == r

----------------------------------------------------------------------------
(* State *)

\* the part of the stores a resolution reads, as recorded by the history variables
Ctx(st) == [base |-> st.base, routerBase |-> st.routerBase]

NoHook == [hook |-> "none", outcome |-> "none", ref |-> "none", error |-> "none"]

NoCall ==
    [fn |-> "none", path |-> <<>>, options |-> Omitted, outcome |-> "none",
     value |-> <<>>, error |-> "none", ctx |-> Ctx(InitialStores)]

NoArgs == [uri |-> <<>>, state |-> "undefined", replace |-> "undefined"]

NoPending == [active |-> FALSE, uri |-> <<>>]

InitWith(keys) ==
    /\ provided \in keys
    /\ stores = InitialStores
    /\ hookResult = NoHook
    /\ resolveFn = NoFn
    /\ navigateFn = NoFn
    /\ created = Ctx(InitialStores)
    /\ lastCall = NoCall
    /\ pc = "idle"
    /\ cur = NoArgs
    /\ navLog = <<>>
    /\ pending = NoPending

HookCompletion(hook, r) ==
    [hook |-> hook, outcome |-> r.outcome, ref |-> r.ref, error |-> r.error]

----------------------------------------------------------------------------
(* Accessor calls, made during component setup *)

Accessor(hook, r) ==
    /\ pc = "idle"
    /\ hookResult' = HookCompletion(hook, r)
    /\ UNCHANGED <<provided, stores, resolveFn, navigateFn, created,
                   lastCall, pc, cur, navLog, pending>>

UseLocation == \E g \in getContext("LOCATION") : Accessor("useLocation", useLocation(g))

UseActiveRoute == \E g \in getContext("ROUTER") : Accessor("useActiveRoute", useActiveRoute(g))

UseRouterBase == \E g \in getContext("ROUTER") : Accessor("useRouterBase", useRouterBase(g))

UseBase == \E g \in getContext("ROUTER") : Accessor("useBase", useBase(g))

UseLinkResolve ==
    /\ pc = "idle"
    /\ \E g1 \in getContext("ROUTER"), g2 \in getContext("ROUTER") :
          LET r == useLinkResolve(g1, g2)
          IN  /\ hookResult' = HookCompletion("useLinkResolve", r)
              /\ resolveFn' = IF r.outcome = "returned" THEN r.fn ELSE resolveFn
              /\ created' = IF r.outcome = "returned" THEN Ctx(stores) ELSE created
    /\ UNCHANGED <<provided, stores, navigateFn, lastCall, pc, cur, navLog, pending>>

UseNavigate ==
    /\ pc = "idle"
    /\ \E g1 \in getContext("ROUTER"), g2 \in getContext("ROUTER") :
          LET r == useNavigate(g1, g2)
          IN  /\ hookResult' = HookCompletion("useNavigate", r)
              /\ navigateFn' = IF r.outcome = "returned" THEN r.fn ELSE navigateFn
    /\ UNCHANGED <<provided, stores, resolveFn, created, lastCall, pc, cur, navLog, pending>>

----------------------------------------------------------------------------
(* Calls of the returned functions *)

ResolveCompletion(path) ==
    [fn |-> "resolve", path |-> path, options |-> Omitted, outcome |-> "returned",
     value |-> resolve(path, resolveFn, stores), error |-> "none", ctx |-> Ctx(stores)]

\* a resolve that also publishes its result as the location and starts a transition
ResolveInContextNavigating(path) ==
    /\ pc = "idle"
    /\ resolveFn.made
    /\ lastCall' = ResolveCompletion(path)
    /\ stores' = [stores EXCEPT !.location.pathname = lastCall'.value]
    /\ pending' = [active |-> TRUE, uri |-> lastCall'.value]
    /\ UNCHANGED <<provided, hookResult, resolveFn, navigateFn, created, pc, cur, navLog>>

\* resolve(path): one synchronous call of the closure returned by useLinkResolve
ResolveInContext(path) ==
    /\ pc = "idle"
    /\ resolveFn.made
    /\ lastCall' = ResolveCompletion(path)
    /\ UNCHANGED <<provided, stores, hookResult, resolveFn, navigateFn, created,
                   pc, cur, navLog, pending>>

\* navigate is called with the raw target before the link has been resolved
NavigateCallEager(to, options) ==
    /\ pc = "idle"
    /\ navigateFn.made
    /\ cur' = navigateRelativeArgs(to, options, navigateFn, stores)
    /\ navLog' = <<[args |-> [cur' EXCEPT !.uri = to], raised |-> "none"]>>
    /\ pending' = [active |-> TRUE, uri |-> to]
    /\ lastCall' = [fn |-> "navigate", path |-> to, options |-> options,
                    outcome |-> "running", value |-> <<>>, error |-> "none",
                    ctx |-> Ctx(stores)]
    /\ pc' = "resolved"
    /\ UNCHANGED <<provided, stores, hookResult, resolveFn, navigateFn, created>>

\* navigateRelative(to, options), first half: the arguments of the call to
\* navigate are evaluated, resolve(to) among them
NavigateCall(to, options) ==
    /\ pc = "idle"
    /\ navigateFn.made
    /\ cur' = navigateRelativeArgs(to, options, navigateFn, stores)
    /\ navLog' = <<>>
    /\ lastCall' = [fn |-> "navigate", path |-> to, options |-> options,
                    outcome |-> "running", value |-> <<>>, error |-> "none",
                    ctx |-> Ctx(stores)]
    /\ pc' = "resolved"
    /\ UNCHANGED <<provided, stores, hookResult, resolveFn, navigateFn, created, pending>>

\* navigateRelative, second half: navigate is called with the evaluated
\* arguments, and the call completes as navigate completes
NavigateInvoke ==
    /\ pc = "resolved"
    /\ \E r \in navigate(cur) :
          LET c == navigateRelativeCompletion(r)
          IN  /\ navLog' = Append(navLog, [args |-> cur, raised |-> r.error])
              /\ pending' = IF r.outcome = "returned"
                            THEN [active |-> TRUE, uri |-> cur.uri]
                            ELSE pending
              /\ lastCall' = [lastCall EXCEPT !.outcome = c.outcome,
                                              !.error = c.error,
                                              !.value = cur.uri]
    /\ pc' = "idle"
    /\ cur' = NoArgs
    /\ UNCHANGED <<provided, stores, hookResult, resolveFn, navigateFn, created>>

----------------------------------------------------------------------------
(* The router machinery, which owns the stores *)

\* a started transition reaches the location store
RouterUpdate ==
    /\ pc = "idle"
    /\ pending.active
    /\ stores' = [stores EXCEPT !.location = [pathname |-> pending.uri]]
    /\ pending' = NoPending
    /\ UNCHANGED <<provided, hookResult, resolveFn, navigateFn, created,
                   lastCall, pc, cur, navLog>>

\* routes are matched again: the active route and the bases take new values
ContextUpdate ==
    /\ pc = "idle"
    /\ \E b \in BaseValues, rb \in RouterBaseValues :
          /\ stores' = [stores EXCEPT !.base = b, !.routerBase = rb,
                                      !.activeRoute = ActiveRouteFor(rb)]
          /\ stores' # stores
    /\ UNCHANGED <<provided, hookResult, resolveFn, navigateFn, created,
                   lastCall, pc, cur, navLog, pending>>

----------------------------------------------------------------------------
(* Specifications *)

\* navigation: a component that obtains navigateRelative and calls it
Init == InitWith({{"LOCATION"}, Keys})

Next ==
    \/ UseNavigate
    \/ \E to \in NavPaths, options \in Options : NavigateCall(to, options)
    \/ NavigateInvoke
    \/ RouterUpdate
    \/ ContextUpdate

Spec == Init /\ [][Next]_vars

\* component setup: the accessors and the two factories, under every provision
InitHooks == InitWith(SUBSET Keys)

NextHooks ==
    \/ UseLocation
    \/ UseActiveRoute
    \/ UseRouterBase
    \/ UseBase
    \/ UseLinkResolve
    \/ UseNavigate
    \/ ContextUpdate

SpecHooks == InitHooks /\ [][NextHooks]_vars

\* the resolver: a component that obtains resolve and calls it on every path
InitResolve == InitWith({{"ROUTER"}})

NextResolve ==
    \/ UseLinkResolve
    \/ \E path \in Paths : ResolveInContext(path)
    \/ ContextUpdate

SpecResolve == InitResolve /\ [][NextResolve]_vars

\* both returned functions in one component, called in any order while the
\* router matches routes again
InitCalls == InitWith({Keys})

NextCalls ==
    \/ UseLinkResolve
    \/ UseNavigate
    \/ \E path \in NavPaths : ResolveInContext(path)
    \/ \E to \in NavPaths : NavigateCall(to, Omitted)
    \/ NavigateInvoke
    \/ ContextUpdate

SpecCalls == InitCalls /\ [][NextCalls]_vars

----------------------------------------------------------------------------
(* Properties *)

NavigateDone == lastCall.fn = "navigate" /\ pc = "idle"

ResolveDone == lastCall.fn = "resolve"

\* C1: every completed navigateRelative(to, options) has invoked navigate
\* exactly once, with resolve(to) as first argument and { state, replace } as
\* second, where replace is options.replace if given and false otherwise and
\* state is options.state if given and undefined otherwise, also when options
\* is omitted.
C1_NavigateOnceWithDefaults ==
    NavigateDone =>
        /\ Len(navLog) = 1
        /\ navLog[1].args.uri = resolve(lastCall.path, navigateFn, lastCall.ctx)
        /\ navLog[1].args.replace =
              (IF lastCall.options.given /\ lastCall.options.replace # "undefined"
               THEN lastCall.options.replace ELSE "false")
        /\ navLog[1].args.state =
              (IF lastCall.options.given THEN lastCall.options.state ELSE "undefined")

\* a call with options omitted has completed, with replace false and state undefined
C1_Witness ==
    /\ NavigateDone
    /\ ~lastCall.options.given
    /\ lastCall.path = <<"a">>
    /\ Len(navLog) = 1
    /\ navLog[1].args = [uri |-> <<"/", "a", "/", "b", "/", "a">>,
                         state |-> "undefined", replace |-> "false"]

\* C5: a failure raised by navigate during navigateRelative reaches the caller
\* unchanged, and navigate is not invoked a second time.
C5_FailurePropagates ==
    (NavigateDone /\ navLog # <<>> /\ navLog[1].raised # "none") =>
        /\ lastCall.outcome = "threw"
        /\ lastCall.error = navLog[1].raised
        /\ Len(navLog) = 1

\* navigate has raised SecurityError inside a call, which ended with it
C5_Witness ==
    /\ NavigateDone
    /\ Len(navLog) = 1
    /\ navLog[1].raised = "SecurityError"
    /\ lastCall.outcome = "threw"

\* C10: inside one navigateRelative call the target is resolved before navigate
\* is invoked: while the resolved uri is held, navigate has not been invoked
\* and no transition has been added; the uri navigate receives is the one
\* resolved from the stores as they were when the call began; and navigate is
\* invoked, or a transition started, only by a call that holds a resolved uri.
C10_ResolvedAtEntry ==
    /\ (pc = "resolved" =>
          /\ navLog = <<>>
          /\ lastCall.ctx = Ctx(stores)
          /\ cur.uri = resolve(lastCall.path, navigateFn, Ctx(stores)))
    /\ (navLog # <<>> =>
          /\ lastCall.fn = "navigate"
          /\ navLog[1].args.uri = resolve(lastCall.path, navigateFn, lastCall.ctx))
    /\ (~navigateFn.made => navLog = <<>> /\ ~pending.active)

C10_InvokedAfterResolution ==
    /\ (navLog' # navLog /\ navLog' # <<>>) =>
          /\ pc = "resolved"
          /\ navLog = <<>>
          /\ navLog' = <<[args |-> cur, raised |-> navLog'[1].raised]>>
    /\ (pending' # pending /\ pending'.active) =>
          /\ pc = "resolved"
          /\ pending'.uri = cur.uri

----------------------------------------------------------------------------

ResolveStep == lastCall' # lastCall /\ lastCall'.fn = "resolve"

NavigateEntry == pc = "idle" /\ pc' = "resolved"

\* C2: every call of one resolve function, and every call of one navigate
\* function, resolves against the base and router-base values current at the
\* moment of that call, whatever they were when the function was created or
\* at an earlier call.
C2_ReadsCurrentValues ==
    [][/\ ResolveStep =>
             /\ lastCall'.ctx = Ctx(stores)
             /\ lastCall'.value =
                   resolveLink(lastCall'.path, stores.base.uri, stores.routerBase.uri)
       /\ NavigateEntry =>
             /\ lastCall'.ctx = Ctx(stores)
             /\ cur'.uri =
                   resolveLink(lastCall'.path, stores.base.uri, stores.routerBase.uri)
       /\ (pc = "resolved" /\ pc' = "idle") =>
             navLog' = <<[args |-> cur, raised |-> navLog'[1].raised]>>]_vars

\* a call made after both bases changed since the function was created, whose
\* result differs from the resolution against the creation-time values
C2_Witness ==
    /\ ResolveDone
    /\ resolveFn.made
    /\ lastCall.ctx.base # created.base
    /\ lastCall.ctx.routerBase # created.routerBase
    /\ lastCall.value #
          resolveLink(lastCall.path, created.base.uri, created.routerBase.uri)

\* C3: resolve(path) returns resolveLink(path, base.uri, routerBase.uri): the
\* uri of base anchors absolute paths and the uri of routerBase anchors
\* relative ones.
C3_ArgumentOrder ==
    ResolveDone =>
        /\ lastCall.outcome = "returned"
        /\ lastCall.value =
              resolveLink(lastCall.path, lastCall.ctx.base.uri, lastCall.ctx.routerBase.uri)
        /\ startsWithSlash(lastCall.path) =>
              lastCall.value = normalize(lastCall.ctx.base.uri \o lastCall.path)
        /\ (lastCall.path # <<>> /\ lastCall.path # <<".">> /\ ~startsWithSlash(lastCall.path)) =>
              lastCall.value =
                 normalize(lastCall.ctx.routerBase.uri \o <<"/">> \o lastCall.path)

\* a relative path resolved where the two uris differ
C3_Witness ==
    /\ ResolveDone
    /\ lastCall.path = <<"a">>
    /\ lastCall.ctx.base.uri = <<"/">>
    /\ lastCall.ctx.routerBase.uri = <<"/", "a", "/", "b">>
    /\ lastCall.value = <<"/", "a", "/", "b", "/", "a">>

\* C6: the resolution of an absolute path is the same for every router-base uri.
C6_AbsoluteIgnoresRouterBase ==
    (ResolveDone /\ startsWithSlash(lastCall.path)) =>
        \A rb \in RouterBaseValues :
            /\ resolve(lastCall.path, resolveFn, [lastCall.ctx EXCEPT !.routerBase = rb])
                  = lastCall.value
            /\ resolveLink(lastCall.path, lastCall.ctx.base.uri, rb.uri) = lastCall.value

\* an absolute path resolved under a router base that differs from the base
C6_Witness ==
    /\ ResolveDone
    /\ lastCall.path = <<"/", "a">>
    /\ lastCall.ctx.base.uri = <<"/", "a">>
    /\ lastCall.ctx.routerBase.uri = <<"/", "a", "/", "b">>
    /\ lastCall.value = <<"/", "a", "/", "a">>

\* C7 as stated: resolving a result again, under the same bases, returns it.
C7_Idempotent ==
    ResolveDone => resolve(lastCall.value, resolveFn, lastCall.ctx) = lastCall.value

\* C7 as amended: under the root base uri "/", resolving a result again
\* returns it.
C7_IdempotentAtRootBase ==
    (ResolveDone /\ lastCall.ctx.base.uri = <<"/">>) =>
        resolve(lastCall.value, resolveFn, lastCall.ctx) = lastCall.value

\* a path that needed normalising, resolved under the root base
C7_Witness ==
    /\ ResolveDone
    /\ lastCall.ctx.base.uri = <<"/">>
    /\ lastCall.ctx.routerBase.uri = <<"/", "a", "/", "b">>
    /\ lastCall.path = <<"a", "/", ".", ".">>
    /\ lastCall.value = <<"/", "a", "/", "b">>

\* C8: for every path resolve returns a value that starts with "/", holds no
\* ".." segment and no repeated slash; ".." above the root stays at the root:
\* "/../a" gives "/a" and "/a//b/../c" gives "/a/c" under the root base.
C8_NormalForm ==
    ResolveDone =>
        /\ lastCall.outcome = "returned"
        /\ startsWithSlash(lastCall.value)
        /\ ~hasDotDotSegment(lastCall.value)
        /\ ~hasRepeatedSlash(lastCall.value)
        /\ (lastCall.ctx.base.uri = <<"/">> /\ lastCall.path = <<"/", ".", ".", "/", "a">>) =>
              lastCall.value = <<"/", "a">>
        /\ (lastCall.ctx.base.uri = <<"/">>
              /\ lastCall.path = <<"/", "a", "/", "/", "b", "/", ".", ".", "/", "c">>) =>
              lastCall.value = <<"/", "a", "/", "c">>
        /\ lastCall.path = <<".", ".", "/", ".", ".", "/", ".", ".">> =>
              lastCall.value = <<"/">>

\* the malformed example has been resolved under the root base
C8_Witness ==
    /\ ResolveDone
    /\ lastCall.ctx.base.uri = <<"/">>
    /\ lastCall.path = <<"/", "a", "/", "/", "b", "/", ".", ".", "/", "c">>
    /\ lastCall.value = <<"/", "a", "/", "c">>

\* C9: a call of resolve changes no store, invokes navigate not at all and
\* starts no transition; repeated with the same path and unchanged bases it
\* returns the same result.
C9_ResolveHasNoEffect ==
    [][ResolveStep =>
          /\ stores' = stores
          /\ navLog' = navLog
          /\ pending' = pending
          /\ (lastCall.fn = "resolve" /\ lastCall'.path = lastCall.path
                /\ lastCall'.ctx = lastCall.ctx) => lastCall'.value = lastCall.value]_vars

\* resolve has been called after the bases changed and while a transition is
\* in flight, and the stores, the transition and the log are as they were
C9_Witness ==
    /\ ResolveDone
    /\ lastCall.ctx = Ctx(stores)
    /\ lastCall.ctx # Ctx(InitialStores)
    /\ stores.location = InitialStores.location
    /\ Len(navLog) = 1
    /\ pending.active

----------------------------------------------------------------------------

RequiredKey(hook) == IF hook = "useLocation" THEN "LOCATION" ELSE "ROUTER"

\* C4: each accessor, and each factory built on them, called where the
\* required context key is not published, ends in an error at that call: it
\* returns nothing, and no resolve or navigate function comes out of it.
C4_MissingContextFails ==
    /\ (hookResult.hook # "none" /\ RequiredKey(hookResult.hook) \notin provided) =>
          /\ hookResult.outcome = "threw"
          /\ hookResult.error \in {"TypeError", "NoProvider"}
          /\ hookResult.ref = "none"
    /\ "ROUTER" \notin provided => (~resolveFn.made /\ ~navigateFn.made)

\* useBase has been called under a provider of the location only, and has thrown
C4_Witness ==
    /\ provided = {"LOCATION"}
    /\ hookResult.hook = "useBase"
    /\ hookResult.outcome = "threw"

====
